---- MODULE Spec2Model ----
(***************************************************************************)
(* Model of the TimeLockContract (contracts/time_lock/src/lib.rs): a       *)
(* Soroban contract keeping a map of time-locked gifts and an id counter   *)
(* in instance storage.  Every contract call is one atomic step.           *)
(***************************************************************************)
EXTENDS Integers, Sequences, FiniteSets, TLC

\* ---------------------------------------------------------------- bounds
MaxGifts == 2
MaxTime == 1

\* ------------------------------------------------------------- constants
\* constants.rs is not part of the available source; the values are small
\* representatives with MIN_GIFT_AMOUNT < MAX_GIFT_AMOUNT.
MIN_GIFT_AMOUNT == 1
MAX_GIFT_AMOUNT == 2

GIFTS == "GIFTS"
NEXT_GIFT_ID == "NEXT_ID"

\* ---------------------------------------------------------- input domains
Address == {"a1", "a2"}
Senders == {"a1"}
Amounts == (MIN_GIFT_AMOUNT - 1) .. (MAX_GIFT_AMOUNT + 1)
Timestamps == 0 .. MaxTime
GiftIds == 0 .. MaxGifts

GiftStatus == {"Created", "Claimed", "Unlocked"}

Error == {"NotUnlocked", "AlreadyClaimed", "InvalidAmount", "Unauthorized",
          "GiftNotFound", "NotClaimed", "AlreadyUnlocked",
          "UnlockTimeNotReached"}

VARIABLES
    instance,      \* env.storage().instance(): key -> value, keys may be absent
    now,           \* env.ledger().timestamp()
    events,        \* sequence of events published so far
    created_ids,   \* history: ids returned by successful create_gift calls
    created_args,  \* history: id -> arguments of the call that created it
    claim_ok       \* history: id -> number of successful claim_gift calls

vars == <<instance, now, events, created_ids, created_args, claim_ok>>

\* ------------------------------------------------------- storage helpers
\* Map::new(&env)
MapNew == [k \in {} |-> 0]

\* Map::set / storage().instance().set: insert or overwrite one key
MapSet(m, key, val) ==
    [k \in (DOMAIN m) \cup {key} |-> IF k = key THEN val ELSE m[k]]

\* storage().instance().get(key).unwrap_or(dflt)
GetOr(st, key, dflt) == IF key \in DOMAIN st THEN st[key] ELSE dflt

Ok(st, ret, ev) == [res |-> "Ok", ret |-> ret, st |-> st, ev |-> ev]
Err(st, e) == [res |-> e, ret |-> 0, st |-> st, ev |-> <<>>]

\* ------------------------------------------------- faulty variants
\* Each is one operation with one plausible slip; the properties below must
\* tell it from the operation as written.

\* validation that rejects the two boundary amounts
create_gift_exclusive(st, sender, recipient, amount, unlock_timestamp) ==
    IF amount <= MIN_GIFT_AMOUNT \/ amount >= MAX_GIFT_AMOUNT
    THEN Err(st, "InvalidAmount")
    ELSE LET gift_id == GetOr(st, NEXT_GIFT_ID, 0)
             st1 == MapSet(st, NEXT_GIFT_ID, gift_id + 1)
             gift == [sender |-> sender, recipient |-> recipient,
                      amount |-> amount,
                      unlock_timestamp |-> unlock_timestamp,
                      status |-> "Created"]
             gifts1 == MapSet(GetOr(st1, GIFTS, MapNew), gift_id, gift)
         IN  Ok(MapSet(st1, GIFTS, gifts1), gift_id, <<>>)

\* the id is allocated before the amount is validated
create_gift_count_first(st, sender, recipient, amount, unlock_timestamp) ==
    LET gift_id == GetOr(st, NEXT_GIFT_ID, 0)
        st1 == MapSet(st, NEXT_GIFT_ID, gift_id + 1)
    IN  IF amount < MIN_GIFT_AMOUNT \/ amount > MAX_GIFT_AMOUNT
        THEN Err(st1, "InvalidAmount")
        ELSE LET gift == [sender |-> sender, recipient |-> recipient,
                          amount |-> amount,
                          unlock_timestamp |-> unlock_timestamp,
                          status |-> "Created"]
                 gifts1 == MapSet(GetOr(st1, GIFTS, MapNew), gift_id, gift)
             IN  Ok(MapSet(st1, GIFTS, gifts1), gift_id, <<>>)

\* the new gift is stored in a fresh map instead of the loaded one
create_gift_fresh_map(st, sender, recipient, amount, unlock_timestamp) ==
    IF amount < MIN_GIFT_AMOUNT \/ amount > MAX_GIFT_AMOUNT
    THEN Err(st, "InvalidAmount")
    ELSE LET gift_id == GetOr(st, NEXT_GIFT_ID, 0)
             st1 == MapSet(st, NEXT_GIFT_ID, gift_id + 1)
             gift == [sender |-> sender, recipient |-> recipient,
                      amount |-> amount,
                      unlock_timestamp |-> unlock_timestamp,
                      status |-> "Created"]
             gifts1 == MapSet(MapNew, gift_id, gift)
         IN  Ok(MapSet(st1, GIFTS, gifts1), gift_id, <<>>)

\* no recipient check
claim_gift_no_auth(st, gift_id, recipient) ==
    IF GIFTS \notin DOMAIN st THEN Err(st, "GiftNotFound")
    ELSE LET gifts == st[GIFTS] IN
    IF gift_id \notin DOMAIN gifts THEN Err(st, "GiftNotFound")
    ELSE LET gift == gifts[gift_id] IN
    IF gift.status = "Claimed" \/ gift.status = "Unlocked"
    THEN Err(st, "AlreadyClaimed")
    ELSE LET gift1 == [gift EXCEPT !.status = "Claimed"]
         IN  Ok(MapSet(st, GIFTS, MapSet(gifts, gift_id, gift1)), 0, <<>>)

\* the already-claimed check forgets the Unlocked status
claim_gift_reclaim(st, gift_id, recipient) ==
    IF GIFTS \notin DOMAIN st THEN Err(st, "GiftNotFound")
    ELSE LET gifts == st[GIFTS] IN
    IF gift_id \notin DOMAIN gifts THEN Err(st, "GiftNotFound")
    ELSE LET gift == gifts[gift_id] IN
    IF gift.recipient # recipient THEN Err(st, "Unauthorized")
    ELSE IF gift.status = "Claimed" THEN Err(st, "AlreadyClaimed")
    ELSE LET gift1 == [gift EXCEPT !.status = "Claimed"]
         IN  Ok(MapSet(st, GIFTS, MapSet(gifts, gift_id, gift1)), 0, <<>>)

\* shared tail of the unlock variants: write the record, publish the event
UnlockWrite(st, gifts, gift_id, gift1, event) ==
    Ok(MapSet(st, GIFTS, MapSet(gifts, gift_id, gift1)), 0, <<event>>)

\* the claimed check is missing: only an Unlocked gift is refused
unlock_gift_no_claim_check(st, timestamp, gift_id, recipient) ==
    IF GIFTS \notin DOMAIN st THEN Err(st, "GiftNotFound")
    ELSE LET gifts == st[GIFTS] IN
    IF gift_id \notin DOMAIN gifts THEN Err(st, "GiftNotFound")
    ELSE LET gift == gifts[gift_id] IN
    IF gift.recipient # recipient THEN Err(st, "Unauthorized")
    ELSE IF gift.status = "Unlocked" THEN Err(st, "AlreadyUnlocked")
    ELSE IF timestamp < gift.unlock_timestamp
    THEN Err(st, "UnlockTimeNotReached")
    ELSE UnlockWrite(st, gifts, gift_id, [gift EXCEPT !.status = "Unlocked"],
                     [gift_id |-> gift_id,
                      unlock_time |-> gift.unlock_timestamp,
                      unlocked_at |-> timestamp])

\* the time comparison is inverted
unlock_gift_time_inverted(st, timestamp, gift_id, recipient) ==
    IF GIFTS \notin DOMAIN st THEN Err(st, "GiftNotFound")
    ELSE LET gifts == st[GIFTS] IN
    IF gift_id \notin DOMAIN gifts THEN Err(st, "GiftNotFound")
    ELSE LET gift == gifts[gift_id] IN
    IF gift.recipient # recipient THEN Err(st, "Unauthorized")
    ELSE IF gift.status # "Claimed" THEN Err(st, "NotClaimed")
    ELSE IF timestamp > gift.unlock_timestamp
    THEN Err(st, "UnlockTimeNotReached")
    ELSE UnlockWrite(st, gifts, gift_id, [gift EXCEPT !.status = "Unlocked"],
                     [gift_id |-> gift_id,
                      unlock_time |-> gift.unlock_timestamp,
                      unlocked_at |-> timestamp])

\* the record is written before the time check
unlock_gift_write_first(st, timestamp, gift_id, recipient) ==
    IF GIFTS \notin DOMAIN st THEN Err(st, "GiftNotFound")
    ELSE LET gifts == st[GIFTS] IN
    IF gift_id \notin DOMAIN gifts THEN Err(st, "GiftNotFound")
    ELSE LET gift == gifts[gift_id] IN
    IF gift.recipient # recipient THEN Err(st, "Unauthorized")
    ELSE IF gift.status # "Claimed" THEN Err(st, "NotClaimed")
    ELSE LET gift1 == [gift EXCEPT !.status = "Unlocked"]
             st1 == MapSet(st, GIFTS, MapSet(gifts, gift_id, gift1))
         IN  IF timestamp < gift.unlock_timestamp
             THEN Err(st1, "UnlockTimeNotReached")
             ELSE Ok(st1, 0, <<[gift_id |-> gift_id,
                                unlock_time |-> gift.unlock_timestamp,
                                unlocked_at |-> timestamp]>>)

\* the unlock time is written into the record
unlock_gift_reset_time(st, timestamp, gift_id, recipient) ==
    IF GIFTS \notin DOMAIN st THEN Err(st, "GiftNotFound")
    ELSE LET gifts == st[GIFTS] IN
    IF gift_id \notin DOMAIN gifts THEN Err(st, "GiftNotFound")
    ELSE LET gift == gifts[gift_id] IN
    IF gift.recipient # recipient THEN Err(st, "Unauthorized")
    ELSE IF gift.status # "Claimed" THEN Err(st, "NotClaimed")
    ELSE IF timestamp < gift.unlock_timestamp
    THEN Err(st, "UnlockTimeNotReached")
    ELSE UnlockWrite(st, gifts, gift_id,
                     [gift EXCEPT !.status = "Unlocked",
                                  !.unlock_timestamp = timestamp],
                     [gift_id |-> gift_id,
                      unlock_time |-> gift.unlock_timestamp,
                      unlocked_at |-> timestamp])

\* the event carries the scheduled time as the actual time
unlock_gift_event_scheduled(st, timestamp, gift_id, recipient) ==
    IF GIFTS \notin DOMAIN st THEN Err(st, "GiftNotFound")
    ELSE LET gifts == st[GIFTS] IN
    IF gift_id \notin DOMAIN gifts THEN Err(st, "GiftNotFound")
    ELSE LET gift == gifts[gift_id] IN
    IF gift.recipient # recipient THEN Err(st, "Unauthorized")
    ELSE IF gift.status # "Claimed" THEN Err(st, "NotClaimed")
    ELSE IF timestamp < gift.unlock_timestamp
    THEN Err(st, "UnlockTimeNotReached")
    ELSE UnlockWrite(st, gifts, gift_id, [gift EXCEPT !.status = "Unlocked"],
                     [gift_id |-> gift_id,
                      unlock_time |-> gift.unlock_timestamp,
                      unlocked_at |-> gift.unlock_timestamp])

\* a three-way match on the status: an Unlocked gift gets AlreadyUnlocked
unlock_gift_three_way(st, timestamp, gift_id, recipient) ==
    IF GIFTS \notin DOMAIN st THEN Err(st, "GiftNotFound")
    ELSE LET gifts == st[GIFTS] IN
    IF gift_id \notin DOMAIN gifts THEN Err(st, "GiftNotFound")
    ELSE LET gift == gifts[gift_id] IN
    IF gift.recipient # recipient THEN Err(st, "Unauthorized")
    ELSE IF gift.status = "Unlocked" THEN Err(st, "AlreadyUnlocked")
    ELSE IF gift.status # "Claimed" THEN Err(st, "NotClaimed")
    ELSE IF timestamp < gift.unlock_timestamp
    THEN Err(st, "UnlockTimeNotReached")
    ELSE UnlockWrite(st, gifts, gift_id, [gift EXCEPT !.status = "Unlocked"],
                     [gift_id |-> gift_id,
                      unlock_time |-> gift.unlock_timestamp,
                      unlocked_at |-> timestamp])

\* the status is checked before the caller's identity
claim_gift_status_first(st, gift_id, recipient) ==
    IF GIFTS \notin DOMAIN st THEN Err(st, "GiftNotFound")
    ELSE LET gifts == st[GIFTS] IN
    IF gift_id \notin DOMAIN gifts THEN Err(st, "GiftNotFound")
    ELSE LET gift == gifts[gift_id] IN
    IF gift.status = "Claimed" \/ gift.status = "Unlocked"
    THEN Err(st, "AlreadyClaimed")
    ELSE IF gift.recipient # recipient THEN Err(st, "Unauthorized")
    ELSE LET gift1 == [gift EXCEPT !.status = "Claimed"]
         IN  Ok(MapSet(st, GIFTS, MapSet(gifts, gift_id, gift1)), 0, <<>>)

\* the record is stored under the incremented counter
create_gift_store_at_next(st, sender, recipient, amount, unlock_timestamp) ==
    IF amount < MIN_GIFT_AMOUNT \/ amount > MAX_GIFT_AMOUNT
    THEN Err(st, "InvalidAmount")
    ELSE LET gift_id == GetOr(st, NEXT_GIFT_ID, 0)
             next_gift_id == gift_id + 1
             st1 == MapSet(st, NEXT_GIFT_ID, next_gift_id)
             gift == [sender |-> sender, recipient |-> recipient,
                      amount |-> amount,
                      unlock_timestamp |-> unlock_timestamp,
                      status |-> "Created"]
             gifts1 == MapSet(GetOr(st1, GIFTS, MapNew), next_gift_id, gift)
         IN  Ok(MapSet(st1, GIFTS, gifts1), gift_id, <<>>)

\* the claimed record is written into a fresh map
claim_gift_fresh_map(st, gift_id, recipient) ==
    IF GIFTS \notin DOMAIN st THEN Err(st, "GiftNotFound")
    ELSE LET gifts == st[GIFTS] IN
    IF gift_id \notin DOMAIN gifts THEN Err(st, "GiftNotFound")
    ELSE LET gift == gifts[gift_id] IN
    IF gift.recipient # recipient THEN Err(st, "Unauthorized")
    ELSE IF gift.status = "Claimed" \/ gift.status = "Unlocked"
    THEN Err(st, "AlreadyClaimed")
    ELSE LET gift1 == [gift EXCEPT !.status = "Claimed"]
         IN  Ok(MapSet(st, GIFTS, MapSet(MapNew, gift_id, gift1)), 0, <<>>)

\* the caller is compared with the sender instead of the recipient
unlock_gift_sender_auth(st, timestamp, gift_id, recipient) ==
    IF GIFTS \notin DOMAIN st THEN Err(st, "GiftNotFound")
    ELSE LET gifts == st[GIFTS] IN
    IF gift_id \notin DOMAIN gifts THEN Err(st, "GiftNotFound")
    ELSE LET gift == gifts[gift_id] IN
    IF gift.sender # recipient THEN Err(st, "Unauthorized")
    ELSE IF gift.status # "Claimed" THEN Err(st, "NotClaimed")
    ELSE IF timestamp < gift.unlock_timestamp
    THEN Err(st, "UnlockTimeNotReached")
    ELSE UnlockWrite(st, gifts, gift_id, [gift EXCEPT !.status = "Unlocked"],
                     [gift_id |-> gift_id,
                      unlock_time |-> gift.unlock_timestamp,
                      unlocked_at |-> timestamp])

\* ------------------------------------------------------------ operations
create_gift(st, sender, recipient, amount, unlock_timestamp) ==
    IF amount < MIN_GIFT_AMOUNT \/ amount > MAX_GIFT_AMOUNT
    THEN Err(st, "InvalidAmount")
    ELSE LET gift_id == GetOr(st, NEXT_GIFT_ID, 0)
             next_gift_id == gift_id + 1
             st1 == MapSet(st, NEXT_GIFT_ID, next_gift_id)
             gift == [sender |-> sender,
                      recipient |-> recipient,
                      amount |-> amount,
                      unlock_timestamp |-> unlock_timestamp,
                      status |-> "Created"]
             gifts == GetOr(st1, GIFTS, MapNew)
             gifts1 == MapSet(gifts, gift_id, gift)
             st2 == MapSet(st1, GIFTS, gifts1)
         IN  Ok(st2, gift_id, <<>>)

claim_gift(st, gift_id, recipient) ==
    IF GIFTS \notin DOMAIN st THEN Err(st, "GiftNotFound")
    ELSE LET gifts == st[GIFTS] IN
    IF gift_id \notin DOMAIN gifts THEN Err(st, "GiftNotFound")
    ELSE LET gift == gifts[gift_id] IN
    IF gift.recipient # recipient THEN Err(st, "Unauthorized")
    ELSE IF gift.status = "Claimed" \/ gift.status = "Unlocked"
    THEN Err(st, "AlreadyClaimed")
    ELSE LET gift1 == [gift EXCEPT !.status = "Claimed"]
             gifts1 == MapSet(gifts, gift_id, gift1)
         IN  Ok(MapSet(st, GIFTS, gifts1), 0, <<>>)

unlock_gift(st, timestamp, gift_id, recipient) ==
    IF GIFTS \notin DOMAIN st THEN Err(st, "GiftNotFound")
    ELSE LET gifts == st[GIFTS] IN
    IF gift_id \notin DOMAIN gifts THEN Err(st, "GiftNotFound")
    ELSE LET gift == gifts[gift_id] IN
    IF gift.recipient # recipient THEN Err(st, "Unauthorized")
    ELSE IF gift.status # "Claimed" THEN Err(st, "NotClaimed")
    ELSE IF gift.status = "Unlocked" THEN Err(st, "AlreadyUnlocked")
    ELSE LET current_time == timestamp IN
    IF current_time < gift.unlock_timestamp
    THEN Err(st, "UnlockTimeNotReached")
    ELSE LET unlock_time == gift.unlock_timestamp
             gift1 == [gift EXCEPT !.status = "Unlocked"]
             gifts1 == MapSet(gifts, gift_id, gift1)
             event == [gift_id |-> gift_id,
                       unlock_time |-> unlock_time,
                       unlocked_at |-> current_time]
         IN  Ok(MapSet(st, GIFTS, gifts1), 0, <<event>>)

get_gift(st, gift_id) ==
    IF GIFTS \notin DOMAIN st THEN Err(st, "GiftNotFound")
    ELSE IF gift_id \notin DOMAIN st[GIFTS] THEN Err(st, "GiftNotFound")
    ELSE Ok(st, st[GIFTS][gift_id], <<>>)

\* the subtraction is done without the reached-already test
get_time_remaining_no_floor(st, timestamp, gift_id) ==
    LET g == get_gift(st, gift_id) IN
    IF g.res # "Ok" THEN Err(st, g.res)
    ELSE LET gift == g.ret IN
    IF gift.status = "Unlocked" THEN Ok(st, 0, <<>>)
    ELSE Ok(st, gift.unlock_timestamp - timestamp, <<>>)

get_time_remaining(st, timestamp, gift_id) ==
    LET g == get_gift(st, gift_id) IN
    IF g.res # "Ok" THEN Err(st, g.res)
    ELSE LET gift == g.ret IN
    IF gift.status = "Unlocked" THEN Ok(st, 0, <<>>)
    ELSE LET current_time == timestamp IN
    IF current_time >= gift.unlock_timestamp THEN Ok(st, 0, <<>>)
    ELSE Ok(st, gift.unlock_timestamp - current_time, <<>>)

\* only the time is tested, not the status
can_unlock_time_only(st, timestamp, gift_id) ==
    LET g == get_gift(st, gift_id) IN
    IF g.res # "Ok" THEN Err(st, g.res)
    ELSE Ok(st, timestamp >= g.ret.unlock_timestamp, <<>>)

\* the time comparison is strict
can_unlock_strict(st, timestamp, gift_id) ==
    LET g == get_gift(st, gift_id) IN
    IF g.res # "Ok" THEN Err(st, g.res)
    ELSE LET gift == g.ret IN
    IF gift.status # "Claimed" THEN Ok(st, FALSE, <<>>)
    ELSE Ok(st, timestamp > gift.unlock_timestamp, <<>>)

can_unlock(st, timestamp, gift_id) ==
    LET g == get_gift(st, gift_id) IN
    IF g.res # "Ok" THEN Err(st, g.res)
    ELSE LET gift == g.ret IN
    IF gift.status # "Claimed" THEN Ok(st, FALSE, <<>>)
    ELSE LET current_time == timestamp IN
         Ok(st, current_time >= gift.unlock_timestamp, <<>>)

\* the loop compares the sender instead of the recipient
RECURSIVE ScanGiftsBySender(_, _, _)
ScanGiftsBySender(gifts, keys, recipient) ==
    IF keys = {} THEN <<>>
    ELSE LET gift_id == CHOOSE k \in keys : \A j \in keys : k <= j
             rest == ScanGiftsBySender(gifts, keys \ {gift_id}, recipient)
         IN  IF gifts[gift_id].sender = recipient
             THEN <<gift_id>> \o rest
             ELSE rest

\* the loop over gifts.iter(): Map iterates in ascending key order
RECURSIVE ScanGifts(_, _, _)
ScanGifts(gifts, keys, recipient) ==
    IF keys = {} THEN <<>>
    ELSE LET gift_id == CHOOSE k \in keys : \A j \in keys : k <= j
             rest == ScanGifts(gifts, keys \ {gift_id}, recipient)
         IN  IF gifts[gift_id].recipient = recipient
             THEN <<gift_id>> \o rest
             ELSE rest

\* a store that was never written is read as an empty map
get_recipient_gifts_default(st, recipient) ==
    LET gifts == GetOr(st, GIFTS, MapNew)
    IN  Ok(st, ScanGifts(gifts, DOMAIN gifts, recipient), <<>>)

get_recipient_gifts(st, recipient) ==
    IF GIFTS \notin DOMAIN st THEN Err(st, "GiftNotFound")
    ELSE Ok(st, ScanGifts(st[GIFTS], DOMAIN st[GIFTS], recipient), <<>>)

\* ---------------------------------------------------------------- state
\* the gifts map as stored (empty when the GIFTS key was never written)
Gifts == GetOr(instance, GIFTS, MapNew)

Init ==
    /\ instance = MapNew
    /\ now = 0
    /\ events = <<>>
    /\ created_ids = <<>>
    /\ created_args = MapNew
    /\ claim_ok = [i \in GiftIds |-> 0]

CreateCall(sender, recipient, amount, unlock_timestamp) ==
    LET r == create_gift(instance, sender, recipient, amount, unlock_timestamp)
    IN  /\ instance' = r.st
        /\ events' = events \o r.ev
        /\ created_ids' = IF r.res = "Ok"
                          THEN Append(created_ids, r.ret)
                          ELSE created_ids
        /\ created_args' = IF r.res = "Ok"
                           THEN MapSet(created_args, r.ret,
                                  [sender |-> sender,
                                   recipient |-> recipient,
                                   amount |-> amount,
                                   unlock_timestamp |-> unlock_timestamp])
                           ELSE created_args
        /\ UNCHANGED <<now, claim_ok>>

ClaimCall(gift_id, recipient) ==
    LET r == claim_gift(instance, gift_id, recipient)
    IN  /\ instance' = r.st
        /\ events' = events \o r.ev
        /\ claim_ok' = IF r.res = "Ok"
                       THEN [claim_ok EXCEPT ![gift_id] = @ + 1]
                       ELSE claim_ok
        /\ UNCHANGED <<now, created_ids, created_args>>

UnlockCall(gift_id, recipient) ==
    LET r == unlock_gift(instance, now, gift_id, recipient)
    IN  /\ instance' = r.st
        /\ events' = events \o r.ev
        /\ UNCHANGED <<now, created_ids, created_args, claim_ok>>

\* the id counter is a u64; the model stops creating after MaxGifts gifts
CreateGift ==
    /\ Len(created_ids) < MaxGifts
    /\ \E sender \in Senders, recipient \in Address,
          amount \in Amounts, unlock_timestamp \in Timestamps :
           CreateCall(sender, recipient, amount, unlock_timestamp)

ClaimGift ==
    \E gift_id \in GiftIds, recipient \in Address :
        ClaimCall(gift_id, recipient)

UnlockGift ==
    \E gift_id \in GiftIds, recipient \in Address :
        UnlockCall(gift_id, recipient)

GetGift ==
    \E gift_id \in GiftIds :
        LET r == get_gift(instance, gift_id)
        IN  /\ instance' = r.st
            /\ events' = events \o r.ev
            /\ UNCHANGED <<now, created_ids, created_args, claim_ok>>

GetTimeRemaining ==
    \E gift_id \in GiftIds :
        LET r == get_time_remaining(instance, now, gift_id)
        IN  /\ instance' = r.st
            /\ events' = events \o r.ev
            /\ UNCHANGED <<now, created_ids, created_args, claim_ok>>

CanUnlock ==
    \E gift_id \in GiftIds :
        LET r == can_unlock(instance, now, gift_id)
        IN  /\ instance' = r.st
            /\ events' = events \o r.ev
            /\ UNCHANGED <<now, created_ids, created_args, claim_ok>>

GetRecipientGifts ==
    \E recipient \in Address :
        LET r == get_recipient_gifts(instance, recipient)
        IN  /\ instance' = r.st
            /\ events' = events \o r.ev
            /\ UNCHANGED <<now, created_ids, created_args, claim_ok>>

\* the ledger closes and its timestamp advances
Tick ==
    /\ now < MaxTime
    /\ now' = now + 1
    /\ UNCHANGED <<instance, events, created_ids, created_args, claim_ok>>

Next ==
    \/ CreateGift
    \/ ClaimGift
    \/ UnlockGift
    \/ GetGift
    \/ GetTimeRemaining
    \/ CanUnlock
    \/ GetRecipientGifts
    \/ Tick

Spec == Init /\ [][Next]_vars

\* ------------------------------------------------------------ properties
ValidAmounts == MIN_GIFT_AMOUNT .. MAX_GIFT_AMOUNT

\* C1: the status of a stored gift changes only by Created -> Claimed in a
\* claim_gift call on that gift and Claimed -> Unlocked in an unlock_gift
\* call on that gift; it never moves backward, never skips Claimed, and an
\* Unlocked gift never changes again.
C1_StatusSteps ==
    [][\A id \in (DOMAIN Gifts) \cap (DOMAIN Gifts') :
        LET s == Gifts[id].status
            t == Gifts'[id].status
        IN  \/ s = t
            \/ /\ s = "Created"
               /\ t = "Claimed"
               /\ \E r \in Address : ClaimCall(id, r)
            \/ /\ s = "Claimed"
               /\ t = "Unlocked"
               /\ \E r \in Address : UnlockCall(id, r)]_vars

C1_Witness ==
    \E id \in DOMAIN Gifts :
        /\ Gifts[id].status = "Unlocked"
        /\ claim_ok[id] = 1
        /\ \E i \in 1 .. Len(events) : events[i].gift_id = id

\* C2: no premature unlock: unlock_gift by the stored recipient on a Claimed
\* gift before unlock_timestamp returns UnlockTimeNotReached and leaves the
\* store (so the status Claimed) as it was; a gift is Unlocked only if the
\* current time has reached its unlock_timestamp.
C2_NoPrematureUnlock ==
    \A id \in DOMAIN Gifts :
        /\ Gifts[id].status = "Unlocked" => now >= Gifts[id].unlock_timestamp
        /\ (Gifts[id].status = "Claimed" /\ now < Gifts[id].unlock_timestamp)
            => LET r == unlock_gift(instance, now, id, Gifts[id].recipient)
               IN  /\ r.res = "UnlockTimeNotReached"
                   /\ r.st = instance
                   /\ r.st[GIFTS][id].status = "Claimed"

C2_Witness ==
    \E id \in DOMAIN Gifts :
        /\ Gifts[id].status = "Claimed"
        /\ claim_ok[id] = 1
        /\ now < Gifts[id].unlock_timestamp
        /\ unlock_gift(instance, now, id, Gifts[id].recipient).res
             = "UnlockTimeNotReached"

\* C3: only the stored recipient advances a gift: a step that changes a
\* gift's status is a claim_gift or unlock_gift call on it with the recipient
\* stored at creation, and a claim_gift or unlock_gift call with any other
\* identity (the sender included) changes nothing in the store.
C3_StrangerChangesNothing ==
    \A id \in DOMAIN Gifts : \A who \in Address \cup Senders :
        who # Gifts[id].recipient
        => /\ claim_gift(instance, id, who).res = "Unauthorized"
           /\ claim_gift(instance, id, who).st = instance
           /\ unlock_gift(instance, now, id, who).res = "Unauthorized"
           /\ unlock_gift(instance, now, id, who).st = instance

C3_OnlyRecipientAdvances ==
    /\ []C3_StrangerChangesNothing
    /\ [][\A id \in (DOMAIN Gifts) \cap (DOMAIN Gifts') :
            Gifts[id].status # Gifts'[id].status
            => /\ Gifts[id].recipient = created_args[id].recipient
               /\ \/ ClaimCall(id, created_args[id].recipient)
                  \/ UnlockCall(id, created_args[id].recipient)]_vars

C3_Witness ==
    \E id \in DOMAIN Gifts :
        /\ Gifts[id].sender # Gifts[id].recipient
        /\ Gifts[id].status = "Unlocked"
        /\ claim_gift(instance, id, Gifts[id].sender).res = "Unauthorized"

\* C4: no double claim: at most one claim_gift call per gift id succeeds, and
\* after that success every claim_gift call by the stored recipient returns
\* AlreadyClaimed, whether the gift is then Claimed or Unlocked.
C4_NoDoubleClaim ==
    \A id \in GiftIds :
        /\ claim_ok[id] <= 1
        /\ claim_ok[id] >= 1
            => /\ id \in DOMAIN Gifts
               /\ Gifts[id].status \in {"Claimed", "Unlocked"}
               /\ claim_gift(instance, id, Gifts[id].recipient).res
                    = "AlreadyClaimed"

C4_Witness ==
    \E id \in DOMAIN Gifts : \E other \in DOMAIN Gifts :
        /\ claim_ok[id] = 1
        /\ Gifts[id].status = "Unlocked"
        /\ claim_ok[other] = 1
        /\ Gifts[other].status = "Claimed"

\* C5: create_gift succeeds for every amount in
\* [MIN_GIFT_AMOUNT, MAX_GIFT_AMOUNT], boundaries included, and the k-th
\* successful call returns k-1.
C5_CreateIds ==
    /\ \A k \in 1 .. Len(created_ids) : created_ids[k] = k - 1
    /\ \A sender \in Senders, recipient \in Address,
          amount \in ValidAmounts, unlock_timestamp \in Timestamps :
           LET r == create_gift(instance, sender, recipient, amount,
                                unlock_timestamp)
           IN  /\ r.res = "Ok"
               /\ r.ret = Len(created_ids)

C5_Witness ==
    /\ Len(created_ids) = 2
    /\ created_ids[2] = 1
    /\ created_args[0].amount = MIN_GIFT_AMOUNT
    /\ created_args[1].amount = MAX_GIFT_AMOUNT

\* C6: create_gift with an amount below MIN_GIFT_AMOUNT or above
\* MAX_GIFT_AMOUNT returns InvalidAmount and leaves the store (records and
\* counter) unchanged, so the next successful create returns the id it would
\* have returned without the failed call.
C6_InvalidAmount ==
    \A sender \in Senders, recipient \in Address,
       amount \in Amounts \ ValidAmounts, unlock_timestamp \in Timestamps :
        LET r == create_gift(instance, sender, recipient, amount,
                             unlock_timestamp)
        IN  /\ r.res = "InvalidAmount"
            /\ r.st = instance
            /\ GetOr(r.st, NEXT_GIFT_ID, 0) = Len(created_ids)

C6_Witness ==
    /\ Len(created_ids) = 1
    /\ NEXT_GIFT_ID \in DOMAIN instance
    /\ instance[NEXT_GIFT_ID] = 1
    /\ create_gift(instance, "a1", "a2", MAX_GIFT_AMOUNT + 1, 0).res
         = "InvalidAmount"
    /\ create_gift(instance, "a1", "a2", MIN_GIFT_AMOUNT - 1, 0).res
         = "InvalidAmount"

\* C7: a call of any operation that returns an error leaves the whole store
\* (every record and the next-id counter) as it was and emits no
\* notification; every change of the store or of the notifications is made
\* by a call that returns success.
Unchanging(r) == r.res \in Error => (r.st = instance /\ r.ev = <<>>)

C7_ErrorsChangeNothing ==
    /\ \A sender \in Senders, recipient \in Address,
          amount \in Amounts, unlock_timestamp \in Timestamps :
           Unchanging(create_gift(instance, sender, recipient, amount,
                                  unlock_timestamp))
    /\ \A gift_id \in GiftIds, who \in Address :
           /\ Unchanging(claim_gift(instance, gift_id, who))
           /\ Unchanging(unlock_gift(instance, now, gift_id, who))
    /\ \A gift_id \in GiftIds :
           /\ Unchanging(get_gift(instance, gift_id))
           /\ Unchanging(get_time_remaining(instance, now, gift_id))
           /\ Unchanging(can_unlock(instance, now, gift_id))
    /\ \A who \in Address :
           Unchanging(get_recipient_gifts(instance, who))

C7_AllOrNothing ==
    /\ []C7_ErrorsChangeNothing
    /\ [][(instance' # instance \/ events' # events)
          => \/ \E sender \in Senders, recipient \in Address,
                   amount \in Amounts, unlock_timestamp \in Timestamps :
                    /\ create_gift(instance, sender, recipient, amount,
                                   unlock_timestamp).res = "Ok"
                    /\ CreateCall(sender, recipient, amount, unlock_timestamp)
             \/ \E gift_id \in GiftIds, who \in Address :
                    \/ /\ claim_gift(instance, gift_id, who).res = "Ok"
                       /\ ClaimCall(gift_id, who)
                    \/ /\ unlock_gift(instance, now, gift_id, who).res = "Ok"
                       /\ UnlockCall(gift_id, who)]_vars

C7_Witness ==
    \E a \in DOMAIN Gifts : \E b \in DOMAIN Gifts :
        /\ Gifts[a].status = "Claimed"
        /\ Gifts[b].status = "Created"
        /\ unlock_gift(instance, now, a, Gifts[a].recipient).res
             = "UnlockTimeNotReached"
        /\ claim_gift(instance, a, Gifts[a].recipient).res = "AlreadyClaimed"
        /\ unlock_gift(instance, now, b, Gifts[b].recipient).res = "NotClaimed"
        /\ claim_gift(instance, MaxGifts, "a1").res = "GiftNotFound"

\* C8: sender, recipient, amount and unlock_timestamp of every gift stay the
\* values passed to the create_gift call that created it; a successful
\* claim_gift or unlock_gift changes only the status of the record it writes.
SameButStatus(g1, g2) ==
    /\ g1.sender = g2.sender
    /\ g1.recipient = g2.recipient
    /\ g1.amount = g2.amount
    /\ g1.unlock_timestamp = g2.unlock_timestamp

C8_FieldsImmutable ==
    /\ \A id \in (DOMAIN created_args) \cap (DOMAIN Gifts) :
           SameButStatus(Gifts[id], created_args[id])
    /\ \A id \in DOMAIN Gifts : \A who \in Address :
           LET c == claim_gift(instance, id, who)
               u == unlock_gift(instance, now, id, who)
           IN  /\ c.res = "Ok" => SameButStatus(c.st[GIFTS][id], Gifts[id])
               /\ u.res = "Ok" => SameButStatus(u.st[GIFTS][id], Gifts[id])

C8_Witness ==
    \E id \in DOMAIN Gifts :
        /\ Gifts[id].status = "Unlocked"
        /\ Gifts[id].sender # Gifts[id].recipient
        /\ Gifts[id].amount = MAX_GIFT_AMOUNT
        /\ Gifts[id].unlock_timestamp < now
        /\ Gifts[id].unlock_timestamp = created_args[id].unlock_timestamp

\* C9: no deletion: an id returned by create_gift is in the mapping in every
\* later state and get_gift on it succeeds, also after the gift is Unlocked.
C9_NoDeletion ==
    \A k \in 1 .. Len(created_ids) :
        /\ created_ids[k] \in DOMAIN Gifts
        /\ get_gift(instance, created_ids[k]).res = "Ok"
        /\ get_gift(instance, created_ids[k]).ret = Gifts[created_ids[k]]

C9_Witness ==
    /\ Len(created_ids) = 2
    /\ \A k \in 1 .. 2 :
         /\ get_gift(instance, created_ids[k]).res = "Ok"
         /\ get_gift(instance, created_ids[k]).ret.status = "Unlocked"

\* C10: a successful unlock_gift emits exactly one notification with the
\* gift's id, its unlock_timestamp as scheduled time and the current time as
\* actual time; nothing else emits a notification, so there is at most one
\* notification per gift id.
EventsOf(id) == {i \in 1 .. Len(events) : events[i].gift_id = id}

C10_AtMostOneEach == \A id \in GiftIds : Cardinality(EventsOf(id)) <= 1

C10_OnlyUnlockEmits ==
    /\ \A sender \in Senders, recipient \in Address,
          amount \in Amounts, unlock_timestamp \in Timestamps :
           create_gift(instance, sender, recipient, amount,
                       unlock_timestamp).ev = <<>>
    /\ \A gift_id \in GiftIds, who \in Address :
           /\ claim_gift(instance, gift_id, who).ev = <<>>
           /\ unlock_gift(instance, now, gift_id, who).res # "Ok"
                => unlock_gift(instance, now, gift_id, who).ev = <<>>
    /\ \A gift_id \in GiftIds :
           /\ get_gift(instance, gift_id).ev = <<>>
           /\ get_time_remaining(instance, now, gift_id).ev = <<>>
           /\ can_unlock(instance, now, gift_id).ev = <<>>
    /\ \A who \in Address : get_recipient_gifts(instance, who).ev = <<>>

C10_UnlockNotification ==
    /\ [](C10_AtMostOneEach /\ C10_OnlyUnlockEmits)
    /\ [][/\ \A gift_id \in GiftIds, who \in Address :
               (/\ unlock_gift(instance, now, gift_id, who).res = "Ok"
                /\ UnlockCall(gift_id, who))
               => events' = Append(events,
                      [gift_id |-> gift_id,
                       unlock_time |-> Gifts[gift_id].unlock_timestamp,
                       unlocked_at |-> now])
          /\ events' # events
               => \E gift_id \in GiftIds, who \in Address :
                      /\ unlock_gift(instance, now, gift_id, who).res = "Ok"
                      /\ UnlockCall(gift_id, who)]_vars

C10_Witness ==
    /\ Len(events) = 2
    /\ events[1].gift_id # events[2].gift_id
    /\ \E i \in 1 .. 2 : events[i].unlocked_at > events[i].unlock_time
    /\ \A i \in 1 .. 2 : Gifts[events[i].gift_id].status = "Unlocked"

\* C11: unlock_gift by the stored recipient needs the status to be exactly
\* Claimed: on a Created gift and on an Unlocked gift it returns NotClaimed;
\* no call of unlock_gift returns AlreadyUnlocked.
C11_NotClaimedNeverAlreadyUnlocked ==
    /\ \A id \in DOMAIN Gifts :
           Gifts[id].status \in {"Created", "Unlocked"}
           => unlock_gift(instance, now, id, Gifts[id].recipient).res
                = "NotClaimed"
    /\ \A gift_id \in GiftIds, who \in Address, t \in Timestamps :
           unlock_gift(instance, t, gift_id, who).res # "AlreadyUnlocked"

C11_Witness ==
    \E a \in DOMAIN Gifts : \E b \in DOMAIN Gifts :
        /\ Gifts[a].status = "Created"
        /\ Gifts[b].status = "Unlocked"
        /\ Cardinality(EventsOf(b)) = 1
        /\ unlock_gift(instance, now, a, Gifts[a].recipient).res = "NotClaimed"
        /\ unlock_gift(instance, now, b, Gifts[b].recipient).res = "NotClaimed"

\* C12: claim_gift decides its outcome in this order: an id that is not
\* stored gives GiftNotFound; a caller other than the stored recipient gives
\* Unauthorized whatever the status; a Claimed or Unlocked gift gives
\* AlreadyClaimed; otherwise the call succeeds and the gift becomes Claimed.
C12_ClaimOutcome(gift_id, who) ==
    IF gift_id \notin DOMAIN Gifts THEN "GiftNotFound"
    ELSE IF who # Gifts[gift_id].recipient THEN "Unauthorized"
    ELSE IF Gifts[gift_id].status \in {"Claimed", "Unlocked"}
    THEN "AlreadyClaimed"
    ELSE "Ok"

C12_ClaimOrder ==
    \A gift_id \in GiftIds, who \in Address :
        LET r == claim_gift(instance, gift_id, who)
        IN  /\ r.res = C12_ClaimOutcome(gift_id, who)
            /\ r.res = "Ok" => r.st[GIFTS][gift_id].status = "Claimed"

C12_Witness ==
    \E a \in DOMAIN Gifts : \E b \in DOMAIN Gifts : \E who \in Address :
        /\ Gifts[a].status = "Unlocked"
        /\ Gifts[b].status = "Claimed"
        /\ who # Gifts[a].recipient
        /\ who = Gifts[b].recipient
        /\ claim_gift(instance, a, who).res = "Unauthorized"
        /\ claim_gift(instance, b, who).res = "AlreadyClaimed"
        /\ claim_gift(instance, MaxGifts, who).res = "GiftNotFound"

\* C13: for a stored gift get_time_remaining succeeds, is never negative, is
\* unlock_timestamp - current_time while the time is before unlock_timestamp
\* and the gift is not Unlocked, is 0 from unlock_timestamp on and 0 for an
\* Unlocked gift at any time; from one step to the next it never increases.
C13_RemainingValue ==
    \A id \in DOMAIN Gifts : \A t \in Timestamps :
        LET r == get_time_remaining(instance, t, id)
            g == Gifts[id]
        IN  /\ r.res = "Ok"
            /\ r.ret >= 0
            /\ r.st = instance
            /\ g.status = "Unlocked" => r.ret = 0
            /\ t >= g.unlock_timestamp => r.ret = 0
            /\ (g.status # "Unlocked" /\ t < g.unlock_timestamp)
                 => r.ret = g.unlock_timestamp - t

C13_TimeRemaining ==
    /\ []C13_RemainingValue
    /\ [][\A id \in DOMAIN Gifts :
            /\ id \in DOMAIN Gifts'
            /\ get_time_remaining(instance', now', id).ret
                 <= get_time_remaining(instance, now, id).ret]_vars

C13_Witness ==
    \E id \in DOMAIN Gifts :
        /\ now > 0
        /\ Gifts[id].status # "Unlocked"
        /\ Gifts[id].unlock_timestamp = now
        /\ get_time_remaining(instance, now - 1, id).ret = 1
        /\ get_time_remaining(instance, now, id).ret = 0

\* C14: for a stored gift can_unlock returns true exactly when the status is
\* Claimed and the current time has reached unlock_timestamp (false, not an
\* error, for Created and Unlocked gifts); it returns GiftNotFound only for
\* an id that is not stored.
C14_CanUnlock ==
    \A gift_id \in GiftIds : \A t \in Timestamps :
        LET r == can_unlock(instance, t, gift_id)
        IN  IF gift_id \in DOMAIN Gifts
            THEN /\ r.res = "Ok"
                 /\ r.ret = (/\ Gifts[gift_id].status = "Claimed"
                             /\ t >= Gifts[gift_id].unlock_timestamp)
            ELSE r.res = "GiftNotFound"

C14_Witness ==
    \E a \in DOMAIN Gifts : \E b \in DOMAIN Gifts :
        /\ Gifts[a].status = "Claimed"
        /\ Gifts[a].unlock_timestamp = now
        /\ now > 0
        /\ can_unlock(instance, now, a).ret = TRUE
        /\ can_unlock(instance, now - 1, a).ret = FALSE
        /\ Gifts[b].status = "Created"
        /\ Gifts[b].unlock_timestamp <= now
        /\ can_unlock(instance, now, b).ret = FALSE

\* C15: once a gift has been created, get_recipient_gifts(R) returns exactly
\* the ids of the stored gifts whose recipient is R, each once, whatever
\* their statuses, and the empty sequence when R has none.
SeqRange(s) == {s[i] : i \in 1 .. Len(s)}

C15_RecipientGifts ==
    Len(created_ids) >= 1
    => \A who \in Address :
           LET r == get_recipient_gifts(instance, who)
               mine == {id \in DOMAIN Gifts : Gifts[id].recipient = who}
           IN  /\ r.res = "Ok"
               /\ SeqRange(r.ret) = mine
               /\ Len(r.ret) = Cardinality(mine)

C15_Witness ==
    /\ Len(created_ids) = 2
    /\ Gifts[0].recipient = "a2"
    /\ Gifts[0].sender = "a1"
    /\ Gifts[0].status = "Unlocked"
    /\ Gifts[1].recipient = "a1"
    /\ get_recipient_gifts(instance, "a2").ret = <<0>>
    /\ get_recipient_gifts(instance, "a1").ret = <<1>>

\* C16: get_recipient_gifts fails only while the store was never written:
\* before the first successful create_gift it returns GiftNotFound for every
\* recipient, as get_gift, claim_gift and unlock_gift do for every id; after
\* the first successful create_gift it never returns an error.
C16_UninitializedOnly ==
    IF Len(created_ids) = 0
    THEN /\ \A who \in Address :
               get_recipient_gifts(instance, who).res = "GiftNotFound"
         /\ \A gift_id \in GiftIds :
               /\ get_gift(instance, gift_id).res = "GiftNotFound"
               /\ \A who \in Address :
                    /\ claim_gift(instance, gift_id, who).res = "GiftNotFound"
                    /\ unlock_gift(instance, now, gift_id, who).res
                         = "GiftNotFound"
    ELSE \A who \in Address : get_recipient_gifts(instance, who).res = "Ok"

C16_Witness ==
    /\ Len(created_ids) = 1
    /\ Gifts[0].recipient = "a1"
    /\ get_recipient_gifts(instance, "a2").res = "Ok"
    /\ get_recipient_gifts(instance, "a2").ret = <<>>
    /\ get_gift(instance, 1).res = "GiftNotFound"

\* C17: the ids in the gift mapping are exactly 0 .. NEXT_ID - 1 (NEXT_ID
\* read as 0 when never written): the counter is the number of records,
\* there is no gap, and create_gift never writes over a stored record.
NextId == GetOr(instance, NEXT_GIFT_ID, 0)

C17_DenseIds ==
    /\ DOMAIN Gifts = 0 .. (NextId - 1)
    /\ Cardinality(DOMAIN Gifts) = NextId
    /\ \A sender \in Senders, recipient \in Address,
          amount \in ValidAmounts, unlock_timestamp \in Timestamps :
           LET r == create_gift(instance, sender, recipient, amount,
                                unlock_timestamp)
           IN  /\ r.ret \notin DOMAIN Gifts
               /\ DOMAIN r.st[GIFTS] = (DOMAIN Gifts) \cup {r.ret}

C17_Witness ==
    /\ NEXT_GIFT_ID \in DOMAIN instance
    /\ instance[NEXT_GIFT_ID] = 2
    /\ DOMAIN Gifts = {0, 1}
    /\ Gifts[0].status = "Claimed"

\* C18: can_unlock agrees with unlock_gift: for every stored gift and every
\* current time, can_unlock returns true exactly when unlock_gift by the
\* stored recipient, in the same state at the same time, succeeds.
C18_CanUnlockAgrees ==
    \A id \in DOMAIN Gifts : \A t \in Timestamps :
        LET c == can_unlock(instance, t, id)
            u == unlock_gift(instance, t, id, Gifts[id].recipient)
        IN  /\ c.res = "Ok"
            /\ c.ret <=> (u.res = "Ok")

C18_Witness ==
    \E id \in DOMAIN Gifts :
        /\ Gifts[id].status = "Claimed"
        /\ Gifts[id].unlock_timestamp = now
        /\ can_unlock(instance, now, id).ret
        /\ unlock_gift(instance, now, id, Gifts[id].recipient).res = "Ok"
        /\ \E other \in DOMAIN Gifts :
             /\ Gifts[other].status = "Unlocked"
             /\ ~ can_unlock(instance, now, other).ret
             /\ unlock_gift(instance, now, other, Gifts[other].recipient).res
                  # "Ok"

\* C19: frame of the operations: a successful claim_gift or unlock_gift on
\* an id leaves every other record and the next-id counter unchanged; a
\* successful create_gift leaves every stored record unchanged; get_gift,
\* get_time_remaining, can_unlock and get_recipient_gifts leave the whole
\* store unchanged.
OthersKept(st, id) ==
    /\ DOMAIN st = DOMAIN instance
    /\ GetOr(st, NEXT_GIFT_ID, 0) = NextId
    /\ DOMAIN st[GIFTS] = DOMAIN Gifts
    /\ \A other \in (DOMAIN Gifts) \ {id} : st[GIFTS][other] = Gifts[other]

C19_Frame ==
    /\ \A gift_id \in GiftIds, who \in Address :
           LET c == claim_gift(instance, gift_id, who)
               u == unlock_gift(instance, now, gift_id, who)
           IN  /\ c.res = "Ok" => OthersKept(c.st, gift_id)
               /\ u.res = "Ok" => OthersKept(u.st, gift_id)
    /\ \A sender \in Senders, recipient \in Address,
          amount \in Amounts, unlock_timestamp \in Timestamps :
           LET r == create_gift(instance, sender, recipient, amount,
                                unlock_timestamp)
           IN  r.res = "Ok"
               => \A old \in DOMAIN Gifts : r.st[GIFTS][old] = Gifts[old]
    /\ \A gift_id \in GiftIds :
           /\ get_gift(instance, gift_id).st = instance
           /\ get_time_remaining(instance, now, gift_id).st = instance
           /\ can_unlock(instance, now, gift_id).st = instance
    /\ \A who \in Address : get_recipient_gifts(instance, who).st = instance

C19_Witness ==
    /\ Len(created_ids) = 2
    /\ Gifts[0].status = "Created"
    /\ Gifts[0].amount = MIN_GIFT_AMOUNT
    /\ Gifts[1].status = "Unlocked"
    /\ Gifts[1].amount = MAX_GIFT_AMOUNT
    /\ claim_ok[1] = 1
    /\ claim_gift(instance, 0, Gifts[0].recipient).res = "Ok"

\* ------------------------------------------------------------- liveness
\* The stored recipient keeps retrying claim_gift and unlock_gift on its gift
\* and the ledger time keeps advancing (up to MaxTime, which every
\* unlock_timestamp of the model is within).
RecipientClaim(id) ==
    /\ id \in DOMAIN Gifts
    /\ ClaimCall(id, Gifts[id].recipient)

RecipientUnlock(id) ==
    /\ id \in DOMAIN Gifts
    /\ UnlockCall(id, Gifts[id].recipient)

\* the ids create_gift can return within the bound
CreatableIds == 0 .. (MaxGifts - 1)

FairSpec ==
    /\ Spec
    /\ WF_vars(Tick)
    /\ \A id \in CreatableIds :
         WF_vars(RecipientClaim(id)) /\ WF_vars(RecipientUnlock(id))

\* C20: no gift is stuck: when the clock keeps advancing and the stored
\* recipient keeps retrying claim_gift and then unlock_gift, every created
\* gift eventually is Unlocked, whatever calls are made in between.
C20_NoGiftStuck ==
    \A id \in CreatableIds :
        (id \in DOMAIN Gifts)
            ~> (id \in DOMAIN Gifts /\ Gifts[id].status = "Unlocked")

C20_Witness ==
    /\ Len(created_ids) = MaxGifts
    /\ now = MaxTime
    /\ \A id \in DOMAIN Gifts : Gifts[id].status = "Unlocked"
    /\ \E id \in DOMAIN Gifts :
         /\ Gifts[id].sender # Gifts[id].recipient
         /\ Gifts[id].unlock_timestamp = MaxTime

====
